---- MODULE Spec2Model ----
(***************************************************************************)
(* Model of python-sidecar/notebooklm_sidecar.py: the command dispatcher   *)
(* (main), the job orchestrator entry points (cmd_process,                 *)
(* cmd_find_notebook, cmd_check_status, cmd_download), the path allocator  *)
(* (unique_path) and the event protocol (emit, emit_error).                *)
(*                                                                         *)
(* Python strings are sequences of one-character strings, so that          *)
(* substring tests, stems, suffixes and f-strings are computed and not     *)
(* assumed.  An Optional value is a sequence of length 0 (None) or 1.      *)
(***************************************************************************)
EXTENDS Integers, Sequences, FiniteSets, TLC

(***************************************************************************)
(* Bounds of the model.                                                    *)
(***************************************************************************)
\* number of sidecar invocations in one behaviour
MaxRuns == 2

(***************************************************************************)
(* Python str operations.                                                  *)
(***************************************************************************)
Digits == <<"0", "1", "2", "3", "4", "5", "6", "7", "8", "9">>

RECURSIVE str(_)
\* str(n) for an int n >= 0, as an f-string formats {counter}
str(n) == IF n < 10 THEN <<Digits[n + 1]>>
          ELSE str(n \div 10) \o <<Digits[(n % 10) + 1]>>

\* sub in s (Python's substring test on str)
contains(s, sub) ==
    \E i \in 0..(Len(s) - Len(sub)) :
        \A j \in 1..Len(sub) : s[i + j] = sub[j]

\* s.rfind("."): the 0-based index of the last dot, -1 when there is none
rfind_dot(s) ==
    IF \E i \in 1..Len(s) : s[i] = "."
    THEN (CHOOSE i \in 1..Len(s) :
              s[i] = "." /\ \A j \in (i + 1)..Len(s) : s[j] # ".") - 1
    ELSE -1

\* s.lower() on ASCII letters
UpperCase == <<"A","B","C","D","E","F","G","H","I","J","K","L","M",
               "N","O","P","Q","R","S","T","U","V","W","X","Y","Z">>
LowerCase == <<"a","b","c","d","e","f","g","h","i","j","k","l","m",
               "n","o","p","q","r","s","t","u","v","w","x","y","z">>
lower(s) ==
    [i \in 1..Len(s) |->
        IF \E u \in 1..Len(UpperCase) : UpperCase[u] = s[i]
        THEN LowerCase[CHOOSE u \in 1..Len(UpperCase) : UpperCase[u] = s[i]]
        ELSE s[i]]

\* truthiness of an Optional[str]: None and "" are both falsy
truthy(opt) == opt # <<>> /\ opt[1] # <<>>

(***************************************************************************)
(* pathlib.  A path is [parent, name]; the parent is a directory named by  *)
(* one argument token (<<>> is the working directory).                     *)
(***************************************************************************)
Path(token) == [parent |-> <<>>, name |-> token]

\* output_dir / name
joinpath(dir, name) == [parent |-> dir.name, name |-> name]

\* PurePath.suffix: from the last dot, unless that dot starts or ends the name
path_suffix(p) ==
    LET i == rfind_dot(p.name)
    IN IF 0 < i /\ i < Len(p.name) - 1
       THEN SubSeq(p.name, i + 1, Len(p.name))
       ELSE <<>>

\* PurePath.stem: the name without its suffix
path_stem(p) ==
    LET i == rfind_dot(p.name)
    IN IF 0 < i /\ i < Len(p.name) - 1
       THEN SubSeq(p.name, 1, i)
       ELSE p.name

\* Path.exists() against the set of existing files
exists(p, fsys) == p \in fsys

(***************************************************************************)
(* unique_path (lines 22-37).                                              *)
(***************************************************************************)
\* parent / f"{stem} {counter}{suffix}"
candidate_path(path, counter) ==
    [parent |-> path.parent,
     name   |-> path_stem(path) \o <<" ">> \o str(counter) \o path_suffix(path)]

RECURSIVE unique_path_loop(_, _, _)
\* the while True loop, entered with the current counter
unique_path_loop(path, counter, fsys) ==
    LET candidate == candidate_path(path, counter)
    IN IF ~exists(candidate, fsys)
       THEN candidate
       ELSE unique_path_loop(path, counter + 1, fsys)

\* an allocator that tries the counter 2 only
unique_path_once(path, fsys) ==
    IF ~exists(path, fsys)
    THEN path
    ELSE candidate_path(path, 2)

unique_path(path, fsys) ==
    IF ~exists(path, fsys)
    THEN path
    ELSE unique_path_loop(path, 2, fsys)

(***************************************************************************)
(* String literals of the program.                                         *)
(***************************************************************************)
CMD_LOGIN         == <<"l","o","g","i","n">>
CMD_CHECK_AUTH    == <<"c","h","e","c","k","-","a","u","t","h">>
CMD_PROCESS       == <<"p","r","o","c","e","s","s">>
CMD_FIND_NOTEBOOK == <<"f","i","n","d","-","n","o","t","e","b","o","o","k">>
CMD_CHECK_STATUS  == <<"c","h","e","c","k","-","s","t","a","t","u","s">>
CMD_DOWNLOAD      == <<"d","o","w","n","l","o","a","d">>

FLAG_SYSTEM_PROMPT == <<"-","-","s","y","s","t","e","m","-","p","r","o","m","p","t">>
FLAG_JOB_ID        == <<"-","-","j","o","b","-","i","d">>
FLAG_SOURCE_FILE   == <<"-","-","s","o","u","r","c","e","-","f","i","l","e">>
FLAG_SOURCE_URL    == <<"-","-","s","o","u","r","c","e","-","u","r","l">>
FLAG_NAME          == <<"-","-","n","a","m","e">>
FLAG_ARTIFACT_ID   == <<"-","-","a","r","t","i","f","a","c","t","-","i","d">>

\* "Auto Slide: " (line 184)
TITLE_PREFIX == <<"A","u","t","o"," ","S","l","i","d","e",":"," ">>
\* "_slides.pdf" (lines 247, 331) and "slides.pdf" (line 331)
SLIDES_SUFFIX == <<"_","s","l","i","d","e","s",".","p","d","f">>
SLIDES_PDF    == <<"s","l","i","d","e","s",".","p","d","f">>
\* 'slide' (line 279)
SLIDE         == <<"s","l","i","d","e">>
\* the fixed default instructions (line 146), kept as one opaque character
DEFAULT_SYSTEM_PROMPT == <<"D">>

\* timeout=300.0 of the readiness wait (line 217)
SOURCE_TIMEOUT == 300
\* timeout=1800.0 of the completion wait (line 238)
COMPLETION_TIMEOUT == 1800

(***************************************************************************)
(* The argument tokens the model draws from.                               *)
(***************************************************************************)
SCRIPT  == <<"s">>
FILE_A  == <<"a",".","t","x","t">>
FILE_B  == <<"b",".","t","x","t">>
FILE_X  == <<"x",".","t","x","t">>
OUT_DIR == <<"o","u","t">>
JOB_7   == <<"7">>
JOB_17  == <<"1","7">>
URL_U   == <<"u">>
NB_1    == <<"n","1">>
NB_2    == <<"n","2">>
TASK_1  == <<"t","1">>
TASK_2  == <<"t","2">>
\* str(artifact.kind) of a slide deck and of an audio overview
KIND_SLIDE_DECK == <<"S","L","I","D","E","_","D","E","C","K">>
KIND_AUDIO      == <<"A","U","D","I","O">>

(***************************************************************************)
(* State.                                                                  *)
(***************************************************************************)
VARIABLES
    runs,       \* invocations of the sidecar started so far
    pc,         \* position of the running invocation ("idle" between runs)
    frame,      \* arguments and local variables of the running command
    stdout,     \* events printed by the running invocation, in order
    calls,      \* workspace-client calls of the running invocation, in order
    uncaught,   \* <<>>, or <<exception>> that escaped main in this invocation
    fs,         \* the regular files that exist (paths)
    notebooks,  \* remote notebooks in listing order: [id, title]
    sources,    \* remote sources in creation order: [id, notebook_id, name]
    artifacts,  \* remote artifacts in creation order: [id, notebook_id, kind, status]
    created,    \* history: the notebooks created by process runs: [job_id, notebook_id]
    polled      \* history: what each completed check-status poll saw and reported

vars == <<runs, pc, frame, stdout, calls, uncaught, fs, notebooks, sources,
          artifacts, created, polled>>

remote == <<notebooks, sources, artifacts>>

(***************************************************************************)
(* Event protocol (lines 40-48).                                           *)
(***************************************************************************)
\* emit(status, message, **kwargs): the record that is printed
emit(status, message, kwargs) ==
    [status |-> status, message |-> message, kwargs |-> kwargs]

\* emit_error(message): the minimal record carrying only an error field
emit_error(message) == [error |-> message]

NoKw == [none |-> TRUE]

IsMinimalError(e) == "error" \in DOMAIN e
IsStatusEvent(e)  == "status" \in DOMAIN e
IsErrorEvent(e) == IsMinimalError(e) \/ (IsStatusEvent(e) /\ e.status = "error")
IsDoneEvent(e)  == IsStatusEvent(e) /\ e.status = "done"
IsTerminalEvent(e) == IsErrorEvent(e) \/ IsDoneEvent(e)

(***************************************************************************)
(* sys.argv handling of main (lines 346-429).  argv is 0-indexed in the    *)
(* program; arg(argv, i) is sys.argv[i].                                   *)
(***************************************************************************)
arg(argv, i) == argv[i + 1]

\* x in sys.argv
in_argv(argv, x) == \E i \in 0..(Len(argv) - 1) : arg(argv, i) = x

\* sys.argv.index(x): the first position of x
argv_index(argv, x) ==
    CHOOSE i \in 0..(Len(argv) - 1) :
        arg(argv, i) = x /\ \A j \in 0..(i - 1) : arg(argv, j) # x

\* the single-valued flags: the token after the first occurrence, else None
flag_value(argv, flag) ==
    IF in_argv(argv, flag)
    THEN LET idx == argv_index(argv, flag)
         IN IF idx + 1 < Len(argv) THEN <<arg(argv, idx + 1)>> ELSE <<>>
    ELSE <<>>

RECURSIVE flag_values_from(_, _, _)
\* the repeatable flags: for i, arg in enumerate(sys.argv), from position i on
flag_values_from(argv, flag, i) ==
    IF i >= Len(argv) THEN <<>>
    ELSE (IF arg(argv, i) = flag /\ i + 1 < Len(argv)
          THEN <<arg(argv, i + 1)>>
          ELSE <<>>) \o flag_values_from(argv, flag, i + 1)

flag_values(argv, flag) == flag_values_from(argv, flag, 0)

(***************************************************************************)
(* Frames: the parameters and locals of the running command.               *)
(***************************************************************************)
NoFrame ==
    [command          |-> "none",
     \* sys.argv of the invocation
     argv             |-> <<>>,
     file_path        |-> Path(<<>>),
     output_dir       |-> Path(<<>>),
     system_prompt    |-> <<>>,
     job_id           |-> <<>>,
     additional_files |-> <<>>,
     source_urls      |-> <<>>,
     name             |-> <<>>,
     artifact_id      |-> <<>>,
     notebook_id      |-> <<>>,
     task_id          |-> <<>>,
     source_ids       |-> <<>>,
     i                |-> 0,
     \* the argument of the last unique_path call
     path             |-> <<>>,
     output_file      |-> <<>>,
     \* what notebooks.list() and artifacts.list() returned (lines 272, 277)
     notebooks        |-> <<>>,
     artifacts        |-> <<>>]

\* cmd_process(file_path, output_dir, system_prompt, job_id,
\*             additional_files or None, source_urls or None)
process_frame(argv) ==
    [NoFrame EXCEPT
        !.command          = "process",
        !.file_path        = Path(arg(argv, 2)),
        !.output_dir       = Path(arg(argv, 3)),
        !.system_prompt    = flag_value(argv, FLAG_SYSTEM_PROMPT),
        !.job_id           = flag_value(argv, FLAG_JOB_ID),
        !.additional_files = flag_values(argv, FLAG_SOURCE_FILE),
        !.source_urls      = flag_values(argv, FLAG_SOURCE_URL)]

\* cmd_find_notebook(sys.argv[2])
find_notebook_frame(argv) ==
    [NoFrame EXCEPT !.command = "find-notebook", !.job_id = <<arg(argv, 2)>>]

\* cmd_check_status(sys.argv[2], sys.argv[3])
check_status_frame(argv) ==
    [NoFrame EXCEPT
        !.command     = "check-status",
        !.notebook_id = <<arg(argv, 2)>>,
        !.task_id     = <<arg(argv, 3)>>]

\* cmd_download(notebook_id, output_dir, name, artifact_id)
download_frame(argv) ==
    [NoFrame EXCEPT
        !.command     = "download",
        !.notebook_id = <<arg(argv, 2)>>,
        !.output_dir  = Path(arg(argv, 3)),
        !.name        = flag_value(argv, FLAG_NAME),
        !.artifact_id = flag_value(argv, FLAG_ARTIFACT_ID)]

\* main: the entry point chosen for argv, or the usage error it prints
main_dispatch(argv) ==
    LET usage(text) == [pc |-> "exit", frame |-> NoFrame,
                        out |-> <<emit_error(<<text>>)>>]
        enter(at, fr) == [pc |-> at, frame |-> fr, out |-> <<>>]
    IN IF Len(argv) < 2 THEN usage("No command provided")
       ELSE LET command == arg(argv, 1)
            IN CASE command = CMD_LOGIN ->
                      \* cmd_login, the interactive browser flow, is not modelled
                      enter("login", [NoFrame EXCEPT !.command = "login"])
                 [] command = CMD_CHECK_AUTH ->
                      enter("check_auth", [NoFrame EXCEPT !.command = "check-auth"])
                 [] command = CMD_PROCESS ->
                      IF Len(argv) < 4 THEN usage("Usage: process")
                      ELSE enter("process_enter", process_frame(argv))
                 [] command = CMD_FIND_NOTEBOOK ->
                      IF Len(argv) < 3 THEN usage("Usage: find-notebook")
                      ELSE enter("find_enter", find_notebook_frame(argv))
                 [] command = CMD_CHECK_STATUS ->
                      IF Len(argv) < 4 THEN usage("Usage: check-status")
                      ELSE enter("status_enter", check_status_frame(argv))
                 [] command = CMD_DOWNLOAD ->
                      IF Len(argv) < 4 THEN usage("Usage: download")
                      ELSE enter("download_enter", download_frame(argv))
                 [] OTHER -> usage("Unknown command")

(***************************************************************************)
(* The workspace client and the credential store, as the sidecar sees      *)
(* them: every call either returns or raises.                              *)
(***************************************************************************)
\* what the credential store can hold when a command reads it
Credentials == {"valid", "absent", "invalid"}

\* NotebookLMClient.from_storage() (lines 181, 271, 307, 330)
from_storage(credential) ==
    CASE credential = "valid"   -> "ok"
      [] credential = "absent"  -> "FileNotFoundError"
      [] credential = "invalid" -> "ValueError"

\* failures a remote call can raise
RemoteFailures == {"RPCError"}
\* calls that read or write a local file can also fail on the file
FileFailures == {"RPCError", "FileNotFoundError"}

\* seconds a source may take to become ready, a task to end
ReadyDelays      == {0, SOURCE_TIMEOUT - 1, SOURCE_TIMEOUT + 1}
CompletionDelays == {0, COMPLETION_TIMEOUT - 1, COMPLETION_TIMEOUT + 1}

TaskStatus == {"pending", "processing", "completed", "failed"}

\* one entry of the call log: the operation, its arguments, "ok" or the
\* exception it raised, what it returned (generate: the task id;
\* wait_for_completion: the final status), and the number of events printed
\* before it
Call(op, notebook_id, a, result) ==
    [op |-> op, notebook_id |-> notebook_id, arg |-> a, result |-> result,
     returned |-> <<>>, delay |-> 0, at |-> Len(stdout)]

\* the entry of a wait: delay is the time the remote side needs
WaitCall(op, notebook_id, a, result, delay) ==
    [Call(op, notebook_id, a, result) EXCEPT !.delay = delay]

\* the client calls made so far
called(op) == {k \in 1..Len(calls) : calls[k].op = op}

\* opaque ids handed out by the remote side
new_notebook_id == <<"n">> \o str(Len(notebooks) + 1)
new_source_id   == <<"s">> \o str(Len(sources) + 1)
new_task_id     == <<"t">> \o str(Len(artifacts) + 1)

\* GenerationStatus as poll_status and wait_for_completion return it
generation_status(task_id, status) ==
    [task_id     |-> task_id,
     status      |-> status,
     is_complete |-> (status = "completed"),
     is_failed   |-> (status = "failed")]

\* client.artifacts.poll_status(notebook_id, task_id): the task's current
\* status; a task the notebook does not list is reported pending
poll_status(arts, notebook_id, task_id) ==
    LET hit == {k \in 1..Len(arts) :
                   arts[k].notebook_id = notebook_id /\ arts[k].id = task_id}
    IN IF hit = {} THEN generation_status(task_id, "pending")
       ELSE generation_status(task_id, arts[CHOOSE k \in hit : TRUE].status)

\* the remote artifact list with task task_id set to status
set_status(arts, task_id, status) ==
    [k \in 1..Len(arts) |->
        IF arts[k].id = task_id THEN [arts[k] EXCEPT !.status = status]
        ELSE arts[k]]

\* every order in which the remote side may list a sequence
Listings(seq) ==
    LET n == Len(seq)
        perms == {f \in [1..n -> 1..n] : \A a, b \in 1..n : f[a] = f[b] => a = b}
    IN {[k \in 1..n |-> seq[f[k]]] : f \in perms}

(***************************************************************************)
(* Initial states and the inputs of a behaviour.                           *)
(***************************************************************************)
\* f"Auto Slide: {file_path.name} [{job_id}]" if job_id else
\* f"Auto Slide: {file_path.name}" (line 184)
process_title(file_path, job_id) ==
    IF truthy(job_id)
    THEN TITLE_PREFIX \o file_path.name \o <<" ", "[">> \o job_id[1] \o <<"]">>
    ELSE TITLE_PREFIX \o file_path.name

\* the input files that exist, and the outputs of earlier jobs
InputFiles == {Path(FILE_A), Path(FILE_B)}
OutA(k) == candidate_path(joinpath(Path(OUT_DIR), <<"a">> \o SLIDES_SUFFIX), k)
InitialOutputs ==
    {{},
     {joinpath(Path(OUT_DIR), <<"a">> \o SLIDES_SUFFIX)},
     {joinpath(Path(OUT_DIR), <<"a">> \o SLIDES_SUFFIX), OutA(3)},
     {joinpath(Path(OUT_DIR), SLIDES_PDF),
      candidate_path(joinpath(Path(OUT_DIR), SLIDES_PDF), 2), OutA(2)}}

\* the remote workspace before the behaviour: empty, or holding the
\* notebook of an earlier job 17 whose slide deck is being generated and
\* whose audio overview is complete
InitialRemotes ==
    {[notebooks |-> <<>>, sources |-> <<>>, artifacts |-> <<>>],
     [notebooks |-> <<[id |-> NB_1,
                       title |-> process_title(Path(FILE_B), <<JOB_17>>)]>>,
      sources   |-> <<[id |-> <<"s", "1">>, notebook_id |-> NB_1,
                       name |-> FILE_B]>>,
      artifacts |-> <<[id |-> TASK_1, notebook_id |-> NB_1,
                       kind |-> KIND_SLIDE_DECK, status |-> "pending"],
                      [id |-> TASK_2, notebook_id |-> NB_1,
                       kind |-> KIND_AUDIO, status |-> "completed"]>>]}

Init ==
    /\ runs = 0
    /\ pc = "idle"
    /\ frame = NoFrame
    /\ stdout = <<>>
    /\ calls = <<>>
    /\ uncaught = <<>>
    /\ \E outs \in InitialOutputs : fs = InputFiles \cup outs
    /\ \E r \in InitialRemotes :
          /\ notebooks = r.notebooks
          /\ sources = r.sources
          /\ artifacts = r.artifacts
    /\ created = <<>>
    /\ polled = <<>>

\* the argument lists of process jobs
ProcessArgv ==
    {<<SCRIPT, CMD_PROCESS, FILE_A, OUT_DIR>>,
     <<SCRIPT, CMD_PROCESS, FILE_X, OUT_DIR, FLAG_JOB_ID, JOB_7>>,
     <<SCRIPT, CMD_PROCESS, FILE_A, FILE_B>>,
     <<SCRIPT, CMD_PROCESS, FILE_A, OUT_DIR, FLAG_JOB_ID, JOB_7,
       FLAG_SOURCE_FILE, FILE_B, FLAG_SOURCE_FILE, FILE_X,
       FLAG_SOURCE_FILE, FILE_A>>,
     <<SCRIPT, CMD_PROCESS, FILE_A, OUT_DIR, FLAG_JOB_ID, JOB_7,
       FLAG_SOURCE_FILE, FILE_X, FLAG_SOURCE_URL, URL_U,
       FLAG_SYSTEM_PROMPT, <<"P">>>>,
     <<SCRIPT, CMD_PROCESS, FILE_A, FLAG_JOB_ID, JOB_7>>,
     <<SCRIPT, CMD_PROCESS, FILE_A, OUT_DIR, FLAG_SYSTEM_PROMPT,
       FLAG_SOURCE_FILE, FILE_B>>}

\* the argument lists of the other commands
RecoveryArgv ==
    {<<SCRIPT, CMD_CHECK_AUTH>>,
     <<SCRIPT, CMD_FIND_NOTEBOOK, JOB_7>>,
     <<SCRIPT, CMD_CHECK_STATUS, NB_1, TASK_1>>,
     <<SCRIPT, CMD_DOWNLOAD, NB_1, OUT_DIR>>,
     <<SCRIPT, CMD_DOWNLOAD, NB_1, OUT_DIR, FLAG_NAME, <<"a">>>>,
     <<SCRIPT, CMD_DOWNLOAD, NB_1, FILE_A>>}

\* argument lists without a command, with an unknown command, or with too
\* few tokens for the command
UsageArgv ==
    {<<SCRIPT>>,
     <<SCRIPT, <<"x">>>>,
     <<SCRIPT, CMD_PROCESS>>,
     <<SCRIPT, CMD_PROCESS, FILE_A>>,
     <<SCRIPT, CMD_FIND_NOTEBOOK>>,
     <<SCRIPT, CMD_CHECK_STATUS>>,
     <<SCRIPT, CMD_CHECK_STATUS, NB_1>>,
     <<SCRIPT, CMD_DOWNLOAD>>,
     <<SCRIPT, CMD_DOWNLOAD, NB_1>>}

\* a behaviour is one job, or none, followed by the commands a caller
\* uses to recover it
ArgvSet ==
    IF runs = 0 THEN ProcessArgv \cup RecoveryArgv \cup UsageArgv
    ELSE RecoveryArgv

(***************************************************************************)
(* main (lines 346-429): one invocation of the sidecar starts.             *)
(***************************************************************************)
main ==
    /\ pc \in {"idle", "exit"}
    /\ runs < MaxRuns
    /\ \E argv \in ArgvSet :
          LET d == main_dispatch(argv)
          IN /\ pc' = d.pc
             /\ frame' = [d.frame EXCEPT !.argv = argv]
             /\ stdout' = d.out
    /\ runs' = runs + 1
    /\ calls' = <<>>
    /\ uncaught' = <<>>
    /\ UNCHANGED <<fs, remote, created, polled>>

(***************************************************************************)
(* Local operations of the commands.                                       *)
(***************************************************************************)
\* output_dir.mkdir(parents=True, exist_ok=True) (lines 176, 325): fails
\* when the path is an existing regular file
mkdir(dir, fsys) == IF exists(dir, fsys) THEN "FileExistsError" ELSE "ok"

\* an exception that no handler catches leaves main: the process dies with a
\* traceback and prints no event
escape(exc) ==
    /\ uncaught' = <<exc>>
    /\ pc' = "exit"
    /\ UNCHANGED <<frame, stdout>>

\* the command returns and the process exits
finish(out) ==
    /\ stdout' = stdout \o out
    /\ pc' = "exit"
    /\ UNCHANGED <<frame, uncaught>>

(***************************************************************************)
(* cmd_check_auth (lines 123-143).                                         *)
(***************************************************************************)
cmd_check_auth ==
    /\ pc = "check_auth"
    /\ \E credential \in Credentials :
          LET head == <<emit("progress", <<"Checking authentication...">>, NoKw),
                        emit("progress", <<"Storage path">>, NoKw)>>
          IN CASE credential = "absent" ->
                    finish(head \o
                           <<emit("error", <<"Storage file not found">>,
                                  [authenticated |-> FALSE])>>)
               [] credential = "invalid" ->
                    finish(head \o
                           <<emit("progress", <<"Storage file exists, validating tokens...">>, NoKw),
                             emit("error", <<"Authentication check failed", "ValueError">>,
                                  [authenticated |-> FALSE])>>)
               [] credential = "valid" ->
                    finish(head \o
                           <<emit("progress", <<"Storage file exists, validating tokens...">>, NoKw),
                             emit("progress", <<"Tokens loaded">>, NoKw),
                             emit("done", <<"Authenticated">>,
                                  [authenticated |-> TRUE])>>)
    /\ UNCHANGED <<runs, calls, fs, remote, created, polled>>

(***************************************************************************)
(* cmd_process (lines 149-261).                                            *)
(***************************************************************************)
\* the except clauses of cmd_process (lines 257-261)
process_except(exc) ==
    IF exc = "FileNotFoundError"
    THEN emit_error(<<"Not authenticated. Run 'login' first.", exc>>)
    ELSE emit_error(<<"Process failed", exc>>)

\* a handler that prints the error and lets the failed step run again
process_raise_retrying(exc) ==
    /\ stdout' = Append(stdout, process_except(exc))
    /\ UNCHANGED <<pc, frame, uncaught>>

\* an exception raised inside the try block of cmd_process
process_raise(exc) == finish(<<process_except(exc)>>)

\* the checks before the try block without the return of line 174
process_enter_no_return ==
    /\ pc = "process_enter"
    /\ IF mkdir(frame.output_dir, fs) # "ok"
       THEN escape(mkdir(frame.output_dir, fs))
       ELSE /\ stdout' = stdout \o
                   (IF ~exists(frame.file_path, fs)
                    THEN <<emit_error(<<"File not found", frame.file_path.name>>)>>
                    ELSE <<>>) \o
                   <<emit("progress", <<"Connecting to NotebookLM...">>, NoKw)>>
            /\ pc' = "process_open"
            /\ UNCHANGED <<frame, uncaught>>
    /\ UNCHANGED <<runs, calls, fs, remote, created, polled>>

\* lines 169-178: the checks before the try block
process_enter ==
    /\ pc = "process_enter"
    /\ IF ~exists(frame.file_path, fs)
       THEN finish(<<emit_error(<<"File not found", frame.file_path.name>>)>>)
       ELSE IF mkdir(frame.output_dir, fs) # "ok"
            THEN escape(mkdir(frame.output_dir, fs))
            ELSE /\ stdout' = Append(stdout,
                        emit("progress", <<"Connecting to NotebookLM...">>, NoKw))
                 /\ pc' = "process_open"
                 /\ UNCHANGED <<frame, uncaught>>
    /\ UNCHANGED <<runs, calls, fs, remote, created, polled>>

\* line 181: async with await NotebookLMClient.from_storage() as client,
\* then line 183
process_open ==
    /\ pc = "process_open"
    /\ \E credential \in Credentials :
          IF from_storage(credential) # "ok"
          THEN process_raise(from_storage(credential))
          ELSE /\ stdout' = Append(stdout,
                      emit("progress", <<"Creating notebook...">>, NoKw))
               /\ pc' = "process_create"
               /\ UNCHANGED <<frame, uncaught>>
    /\ UNCHANGED <<runs, calls, fs, remote, created, polled>>

\* the loop without the existence check of line 198: every additional
\* file is uploaded
next_additional_unchecked(additional_files, i, fsys) ==
    IF i > Len(additional_files) THEN [i |-> i, out |-> <<>>]
    ELSE [i   |-> i,
          out |-> <<emit("progress",
                         <<"Uploading additional source", additional_files[i]>>,
                         NoKw)>>]

RECURSIVE next_additional(_, _, _)
\* the loop of lines 196-201 from the i-th additional file on: the missing
\* files it skips, up to the next file it uploads
next_additional(additional_files, i, fsys) ==
    IF i > Len(additional_files) THEN [i |-> i, out |-> <<>>]
    ELSE IF ~exists(Path(additional_files[i]), fsys)
         THEN LET rest == next_additional(additional_files, i + 1, fsys)
              IN [i   |-> rest.i,
                  out |-> <<emit("progress",
                                 <<"Skipping missing file", additional_files[i]>>,
                                 NoKw)>> \o rest.out]
         ELSE [i   |-> i,
               out |-> <<emit("progress",
                              <<"Uploading additional source", additional_files[i]>>,
                              NoKw)>>]

\* a wait loop that awaits only the first recorded source
resume_waits_first_only(fr, k) ==
    IF k = 1
    THEN [pc |-> "process_wait", i |-> k,
          out |-> <<emit("progress",
                         <<"Waiting for source to be processed", fr.source_ids[k].name>>,
                         NoKw)>>]
    ELSE [pc |-> "process_generate", i |-> 0,
          out |-> <<emit("progress", <<"Generating slide deck...">>, NoKw)>>]

\* lines 214-222 from the k-th recorded source on
resume_waits(fr, k) ==
    IF k <= Len(fr.source_ids)
    THEN [pc |-> "process_wait", i |-> k,
          out |-> <<emit("progress",
                         <<"Waiting for source to be processed", fr.source_ids[k].name>>,
                         NoKw)>>]
    ELSE [pc |-> "process_generate", i |-> 0,
          out |-> <<emit("progress", <<"Generating slide deck...">>, NoKw)>>]

\* a URL loop that adds the URLs without announcing them
resume_urls_silent(fr, j) ==
    IF j <= Len(fr.source_urls)
    THEN [pc |-> "process_add_url", i |-> j, out |-> <<>>]
    ELSE resume_waits(fr, 1)

\* lines 207-208 from the j-th URL on
resume_urls(fr, j) ==
    IF j <= Len(fr.source_urls)
    THEN [pc |-> "process_add_url", i |-> j,
          out |-> <<emit("progress", <<"Adding URL source", fr.source_urls[j]>>, NoKw)>>]
    ELSE resume_waits(fr, 1)

\* lines 196-201 from the i-th additional file on
resume_files(fr, i, fsys) ==
    LET r == next_additional(fr.additional_files, i, fsys)
    IN IF r.i <= Len(fr.additional_files)
       THEN [pc |-> "process_add_file", i |-> r.i, out |-> r.out]
       ELSE LET u == resume_urls(fr, 1)
            IN [pc |-> u.pc, i |-> u.i, out |-> r.out \o u.out]

\* control moves to the next await: the events printed on the way, the
\* locals, the position
process_goto(fr, r, out) ==
    /\ frame' = [fr EXCEPT !.i = r.i]
    /\ stdout' = stdout \o out \o r.out
    /\ pc' = r.pc
    /\ UNCHANGED uncaught

\* lines 185-190: client.notebooks.create(title)
process_create ==
    /\ pc = "process_create"
    /\ LET title == process_title(frame.file_path, frame.job_id)
       IN \/ \E exc \in RemoteFailures :
                /\ calls' = Append(calls, Call("notebooks.create", <<>>, title, exc))
                /\ process_raise(exc)
                /\ UNCHANGED <<notebooks, created>>
          \/ LET notebook_id == new_notebook_id
             IN /\ calls' = Append(calls, Call("notebooks.create", <<>>, title, "ok"))
                /\ notebooks' = Append(notebooks,
                                          [id |-> notebook_id, title |-> title])
                /\ created' = Append(created,
                                     [job_id |-> frame.job_id,
                                      notebook_id |-> notebook_id])
                /\ frame' = [frame EXCEPT !.notebook_id = <<notebook_id>>]
                /\ stdout' = stdout \o
                      <<emit("progress", <<"Notebook created">>,
                             [notebook_id |-> notebook_id]),
                        emit("progress", <<"Uploading source", frame.file_path.name>>,
                             NoKw)>>
                /\ pc' = "process_add_primary"
                /\ UNCHANGED uncaught
    /\ UNCHANGED <<runs, fs, sources, artifacts, polled>>

\* client.sources.add_file / add_url succeeded: the source is recorded
\* remotely and in source_ids (lines 193, 204, 211)
record_source(fr, source_id, sname) ==
    [fr EXCEPT !.source_ids = Append(fr.source_ids, [id |-> source_id, name |-> sname])]

remote_source(source_id, notebook_id, sname) ==
    [id |-> source_id, notebook_id |-> notebook_id, name |-> sname]

\* lines 191-193: the primary file is uploaded
process_add_primary ==
    /\ pc = "process_add_primary"
    /\ LET add(result) == Call("sources.add_file", frame.notebook_id,
                               frame.file_path.name, result)
       IN \/ \E exc \in FileFailures :
                /\ calls' = Append(calls, add(exc))
                /\ process_raise(exc)
                /\ UNCHANGED sources
          \/ LET sid == new_source_id
                 fr == record_source(frame, sid, frame.file_path.name)
             IN /\ calls' = Append(calls, add("ok"))
                /\ sources' = Append(sources,
                       remote_source(sid, frame.notebook_id[1], frame.file_path.name))
                /\ process_goto(fr, resume_files(fr, 1, fs),
                                <<emit("progress", <<"Source uploaded", sid>>, NoKw)>>)
    /\ UNCHANGED <<runs, fs, notebooks, artifacts, created, polled>>

\* lines 202-204: an additional file that exists is uploaded
process_add_file ==
    /\ pc = "process_add_file"
    /\ LET af == frame.additional_files[frame.i]
           add(result) == Call("sources.add_file", frame.notebook_id, af, result)
       IN \/ \E exc \in FileFailures :
                /\ calls' = Append(calls, add(exc))
                /\ process_raise(exc)
                /\ UNCHANGED sources
          \/ LET sid == new_source_id
                 fr == record_source(frame, sid, af)
             IN /\ calls' = Append(calls, add("ok"))
                /\ sources' = Append(sources,
                       remote_source(sid, frame.notebook_id[1], af))
                /\ process_goto(fr, resume_files(fr, frame.i + 1, fs),
                      <<emit("progress", <<"Additional source uploaded", sid>>, NoKw)>>)
    /\ UNCHANGED <<runs, fs, notebooks, artifacts, created, polled>>

\* lines 209-211: a URL is added as a source
process_add_url ==
    /\ pc = "process_add_url"
    /\ LET url == frame.source_urls[frame.i]
           add(result) == Call("sources.add_url", frame.notebook_id, url, result)
       IN \/ \E exc \in RemoteFailures :
                /\ calls' = Append(calls, add(exc))
                /\ process_raise(exc)
                /\ UNCHANGED sources
          \/ LET sid == new_source_id
                 fr == record_source(frame, sid, url)
             IN /\ calls' = Append(calls, add("ok"))
                /\ sources' = Append(sources,
                       remote_source(sid, frame.notebook_id[1], url))
                /\ process_goto(fr, resume_urls(fr, frame.i + 1),
                      <<emit("progress", <<"URL source added", sid>>, NoKw)>>)
    /\ UNCHANGED <<runs, fs, notebooks, artifacts, created, polled>>

RECURSIVE waited(_)
\* the seconds the waits of a call log have taken together
waited(log) ==
    IF log = <<>> THEN 0
    ELSE log[Len(log)].delay + waited(SubSeq(log, 1, Len(log) - 1))

\* a readiness wait whose budget is what the earlier waits of the run have
\* left of it
wait_until_ready_shared(delay, timeout) ==
    IF waited(calls) + delay < timeout THEN "ok" ELSE "SourceTimeoutError"

\* a readiness wait whose timeout is not treated as a failure
wait_until_ready_lenient(delay, timeout) == "ok"

\* client.sources.wait_until_ready(notebook_id, sid, timeout): the source
\* turns ready after delay seconds, or the budget ends first
wait_until_ready(delay, timeout) ==
    IF delay < timeout THEN "ok" ELSE "SourceTimeoutError"

\* lines 216-219: the readiness wait of the i-th recorded source
process_wait ==
    /\ pc = "process_wait"
    /\ LET wait(result, delay) ==
               WaitCall("sources.wait_until_ready", frame.notebook_id,
                        frame.source_ids[frame.i].id, result, delay)
       IN \/ \E exc \in RemoteFailures :
                /\ calls' = Append(calls, wait(exc, 0))
                /\ process_raise(exc)
          \/ \E delay \in ReadyDelays :
                LET result == wait_until_ready(delay, SOURCE_TIMEOUT)
                IN /\ calls' = Append(calls, wait(result, delay))
                   /\ IF result # "ok"
                      THEN process_raise(result)
                      ELSE process_goto(frame, resume_waits(frame, frame.i + 1),
                              <<emit("progress",
                                     <<"Source ready", frame.source_ids[frame.i].name>>,
                                     NoKw)>>)
    /\ UNCHANGED <<runs, fs, remote, created, polled>>

\* system_prompt or DEFAULT_SYSTEM_PROMPT (line 223)
instructions(system_prompt) ==
    IF truthy(system_prompt) THEN system_prompt[1] ELSE DEFAULT_SYSTEM_PROMPT

\* the empty task id reported without the return of line 230
process_rejected_no_return ==
    /\ stdout' = stdout \o
          <<emit_error(<<"Slide generation failed to start (no task_id returned)">>),
            emit("progress", <<"Waiting for slide generation to complete...">>, NoKw)>>
    /\ frame' = [frame EXCEPT !.task_id = << <<>> >>]
    /\ pc' = "process_wait_completion"
    /\ UNCHANGED uncaught

\* lines 228-230: the generation call returned no task id
process_rejected ==
    finish(<<emit_error(<<"Slide generation failed to start (no task_id returned)">>)>>)

\* lines 224-234: client.artifacts.generate_slide_deck; its result is "ok"
\* also when the status it returns carries an empty task_id
process_generate ==
    /\ pc = "process_generate"
    /\ LET generate(result, task_id) ==
               [Call("artifacts.generate_slide_deck", frame.notebook_id,
                     instructions(frame.system_prompt), result)
                EXCEPT !.returned = task_id]
       IN \/ \E exc \in RemoteFailures :
                /\ calls' = Append(calls, generate(exc, <<>>))
                /\ process_raise(exc)
                /\ UNCHANGED artifacts
          \/ /\ calls' = Append(calls, generate("ok", <<>>))
             /\ process_rejected
             /\ UNCHANGED artifacts
          \/ LET task_id == new_task_id
             IN /\ calls' = Append(calls, generate("ok", task_id))
                /\ artifacts' = Append(artifacts,
                       [id |-> task_id, notebook_id |-> frame.notebook_id[1],
                        kind |-> KIND_SLIDE_DECK, status |-> "pending"])
                /\ frame' = [frame EXCEPT !.task_id = <<task_id>>]
                /\ stdout' = stdout \o
                      <<emit("progress", <<"Generation started">>,
                             [task_id |-> task_id,
                              notebook_id |-> frame.notebook_id[1]]),
                        emit("progress",
                             <<"Waiting for slide generation to complete...">>, NoKw)>>
                /\ pc' = "process_wait_completion"
                /\ UNCHANGED uncaught
    /\ UNCHANGED <<runs, fs, notebooks, sources, created, polled>>

\* client.artifacts.wait_for_completion(notebook_id, task_id, timeout)
wait_for_completion(delay, timeout) ==
    IF delay < timeout THEN "ok" ELSE "TimeoutError"

\* output_dir / f"{file_path.stem}_slides.pdf" (line 247)
process_output_path(fr) ==
    joinpath(fr.output_dir, path_stem(fr.file_path) \o SLIDES_SUFFIX)

\* lines 241-248: after the completion wait returned final_status
process_after_completion(fr, final_status, fsys) ==
    LET output_file == unique_path(process_output_path(fr), fsys)
    IN [frame |-> [fr EXCEPT !.path = <<process_output_path(fr)>>,
                             !.output_file = <<output_file>>],
        out   |-> <<IF final_status.is_failed
                    THEN emit("progress",
                              <<"Generation status reports failed, attempting download anyway...">>,
                              NoKw)
                    ELSE emit("progress", <<"Slide generation complete!">>, NoKw),
                    emit("progress", <<"Downloading PDF to", output_file.name>>, NoKw)>>]

\* a completion wait after which a failed status ends the job
process_wait_completion_strict ==
    /\ pc = "process_wait_completion"
    /\ \E final \in {"completed", "failed"} :
          /\ calls' = Append(calls,
                [Call("artifacts.wait_for_completion", frame.notebook_id,
                      frame.task_id[1], "ok")
                 EXCEPT !.returned = <<final>>])
          /\ artifacts' = set_status(artifacts, frame.task_id[1], final)
          /\ IF final = "failed"
             THEN finish(<<emit_error(<<"Slide generation failed">>)>>)
             ELSE LET r == process_after_completion(
                               frame, generation_status(frame.task_id[1], final), fs)
                  IN /\ frame' = r.frame
                     /\ stdout' = stdout \o r.out
                     /\ pc' = "process_download"
                     /\ UNCHANGED uncaught
    /\ UNCHANGED <<runs, fs, notebooks, sources, created, polled>>

\* lines 235-248: the completion wait
process_wait_completion ==
    /\ pc = "process_wait_completion"
    /\ LET wait(result, delay) ==
               WaitCall("artifacts.wait_for_completion", frame.notebook_id,
                        frame.task_id[1], result, delay)
       IN \/ \E exc \in RemoteFailures :
                /\ calls' = Append(calls, wait(exc, 0))
                /\ process_raise(exc)
                /\ UNCHANGED artifacts
          \/ \E delay \in CompletionDelays, final \in {"completed", "failed"} :
                LET result == wait_for_completion(delay, COMPLETION_TIMEOUT)
                IN IF result # "ok"
                   THEN /\ calls' = Append(calls, wait(result, delay))
                        /\ process_raise(result)
                        /\ artifacts' = set_status(artifacts, frame.task_id[1],
                                                   "processing")
                   ELSE LET r == process_after_completion(
                                     frame,
                                     generation_status(frame.task_id[1], final), fs)
                        IN /\ calls' = Append(calls,
                                 [wait(result, delay) EXCEPT !.returned = <<final>>])
                           /\ artifacts' = set_status(artifacts, frame.task_id[1],
                                                      final)
                           /\ frame' = r.frame
                           /\ stdout' = stdout \o r.out
                           /\ pc' = "process_download"
                           /\ UNCHANGED uncaught
    /\ UNCHANGED <<runs, fs, notebooks, sources, created, polled>>

\* the done event printed before the download has returned
process_download_done_first ==
    /\ pc = "process_download"
    /\ LET download(result) ==
               Call("artifacts.download_slide_deck", frame.notebook_id,
                    frame.output_file[1].name, result)
           done == emit("done", <<"PDF downloaded", frame.output_file[1].name>>,
                        [output_path |-> frame.output_file[1],
                         notebook_id |-> frame.notebook_id[1]])
       IN \/ \E exc \in FileFailures :
                /\ calls' = Append(calls, download(exc))
                /\ finish(<<done, process_except(exc)>>)
                /\ UNCHANGED fs
          \/ /\ calls' = Append(calls, download("ok"))
             /\ fs' = fs \cup {frame.output_file[1]}
             /\ finish(<<done>>)
    /\ UNCHANGED <<runs, remote, created, polled>>

\* lines 250-255: client.artifacts.download_slide_deck and the done event
process_download ==
    /\ pc = "process_download"
    /\ LET download(result) ==
               Call("artifacts.download_slide_deck", frame.notebook_id,
                    frame.output_file[1].name, result)
       IN \/ \E exc \in FileFailures :
                /\ calls' = Append(calls, download(exc))
                /\ process_raise(exc)
                /\ UNCHANGED fs
          \/ /\ calls' = Append(calls, download("ok"))
             /\ fs' = fs \cup {frame.output_file[1]}
             /\ finish(<<emit("done", <<"PDF downloaded", frame.output_file[1].name>>,
                              [output_path |-> frame.output_file[1],
                               notebook_id |-> frame.notebook_id[1]])>>)
    /\ UNCHANGED <<runs, remote, created, polled>>

(***************************************************************************)
(* cmd_find_notebook (lines 264-297).                                      *)
(***************************************************************************)
\* the except clauses of cmd_find_notebook (lines 294-297)
find_except(exc) ==
    IF exc = "FileNotFoundError"
    THEN emit_error(<<"Not authenticated. Run 'login' first.", exc>>)
    ELSE emit_error(<<"Find notebook failed", exc>>)

\* lines 268-271
find_enter ==
    /\ pc = "find_enter"
    /\ \E credential \in Credentials :
          LET head == emit("progress", <<"Searching for notebook with job ID">>, NoKw)
          IN IF from_storage(credential) # "ok"
             THEN finish(<<head, find_except(from_storage(credential))>>)
             ELSE /\ stdout' = Append(stdout, head)
                  /\ pc' = "find_list"
                  /\ UNCHANGED <<frame, uncaught>>
    /\ UNCHANGED <<runs, calls, fs, remote, created, polled>>

\* a scan that keeps the last match instead of returning at the first
last_match(listing, job_id) ==
    LET hits == {k \in 1..Len(listing) : contains(listing[k].title, job_id)}
    IN IF hits = {} THEN 0
       ELSE CHOOSE k \in hits : \A h \in hits : k >= h

\* for nb in notebooks: if job_id in nb.title (lines 273-274): the position
\* of the first match in the listing, 0 when there is none
first_match(listing, job_id) ==
    LET hits == {k \in 1..Len(listing) : contains(listing[k].title, job_id)}
    IN IF hits = {} THEN 0
       ELSE CHOOSE k \in hits : \A h \in hits : k <= h

\* the scan of find_list that creates the notebook it did not find
find_list_or_create ==
    /\ pc = "find_list"
    /\ \E listing \in Listings(notebooks) :
          LET k == first_match(listing, frame.job_id[1])
          IN /\ IF k = 0
                THEN /\ calls' = calls \o
                           <<Call("notebooks.list", <<>>, <<>>, "ok"),
                             Call("notebooks.create", <<>>, frame.job_id[1], "ok")>>
                     /\ notebooks' = Append(notebooks,
                           [id |-> new_notebook_id, title |-> frame.job_id[1]])
                     /\ frame' = [frame EXCEPT !.notebooks = listing,
                                               !.notebook_id = <<new_notebook_id>>]
                ELSE /\ calls' = Append(calls, Call("notebooks.list", <<>>, <<>>, "ok"))
                     /\ frame' = [frame EXCEPT !.notebooks = listing,
                                               !.notebook_id = <<listing[k].id>>]
                     /\ UNCHANGED notebooks
             /\ stdout' = Append(stdout,
                   emit("progress",
                        <<"Found notebook",
                          IF k = 0 THEN new_notebook_id ELSE listing[k].id>>, NoKw))
             /\ pc' = "find_artifacts"
             /\ UNCHANGED uncaught
    /\ UNCHANGED <<runs, fs, sources, artifacts, created, polled>>

\* lines 272-275 and 293: client.notebooks.list() and the scan
find_list ==
    /\ pc = "find_list"
    /\ \/ \E exc \in RemoteFailures :
             /\ calls' = Append(calls, Call("notebooks.list", <<>>, <<>>, exc))
             /\ finish(<<find_except(exc)>>)
       \/ \E listing \in Listings(notebooks) :
             LET k == first_match(listing, frame.job_id[1])
             IN /\ calls' = Append(calls, Call("notebooks.list", <<>>, <<>>, "ok"))
                /\ UNCHANGED uncaught
                /\ IF k = 0
                   THEN /\ frame' = [frame EXCEPT !.notebooks = listing]
                        /\ stdout' = Append(stdout,
                              emit("done", <<"No matching notebook found">>,
                                   [notebook_id |-> <<>>]))
                        /\ pc' = "exit"
                   ELSE /\ frame' = [frame EXCEPT !.notebooks = listing,
                                                  !.notebook_id = <<listing[k].id>>]
                        /\ stdout' = Append(stdout,
                              emit("progress", <<"Found notebook", listing[k].id>>,
                                   NoKw))
                        /\ pc' = "find_artifacts"
    /\ UNCHANGED <<runs, fs, remote, created, polled>>

\* the test that takes any artifact for a slide deck
is_any_kind(kind) == TRUE

\* hasattr(artifact, 'kind') and 'slide' in str(artifact.kind).lower()
is_slide_kind(kind) == contains(lower(kind), SLIDE)

\* lines 280-285: the done event for a slide artifact
find_result(notebook_id, artifact) ==
    LET is_completed  == artifact.status = "completed"
        is_processing == artifact.status = "processing"
        is_failed     == artifact.status = "failed"
    IN emit("done", <<"Found notebook with slide artifact">>,
            [notebook_id       |-> notebook_id,
             task_id           |-> artifact.id,
             generation_status |-> IF is_completed THEN "completed"
                                   ELSE IF is_processing THEN "processing"
                                   ELSE "failed",
             is_complete       |-> is_completed,
             is_failed         |-> is_failed])

\* lines 277-291: client.artifacts.list(nb.id) and the scan for a slide deck
find_artifacts ==
    /\ pc = "find_artifacts"
    /\ \/ \E exc \in RemoteFailures :
             /\ calls' = Append(calls, Call("artifacts.list", frame.notebook_id, <<>>, exc))
             /\ finish(<<find_except(exc)>>)
       \/ \E listing \in Listings(SelectSeq(artifacts,
                LAMBDA a : a.notebook_id = frame.notebook_id[1])) :
             LET slides == {k \in 1..Len(listing) : is_slide_kind(listing[k].kind)}
             IN /\ calls' = Append(calls,
                       Call("artifacts.list", frame.notebook_id, <<>>, "ok"))
                /\ frame' = [frame EXCEPT !.artifacts = listing]
                /\ stdout' = Append(stdout,
                      IF slides = {}
                      THEN emit("done", <<"Found notebook but no slide artifact">>,
                                [notebook_id |-> frame.notebook_id[1],
                                 generation_status |-> "no_artifact"])
                      ELSE find_result(frame.notebook_id[1],
                                       listing[CHOOSE k \in slides :
                                                  \A h \in slides : k <= h]))
                /\ pc' = "exit"
                /\ UNCHANGED uncaught
    /\ UNCHANGED <<runs, fs, remote, created, polled>>

(***************************************************************************)
(* cmd_check_status (lines 300-317).                                       *)
(***************************************************************************)
\* the except clauses of cmd_check_status (lines 314-317)
status_except(exc) ==
    IF exc = "FileNotFoundError"
    THEN emit_error(<<"Not authenticated. Run 'login' first.", exc>>)
    ELSE emit_error(<<"Check status failed", exc>>)

\* lines 304-307
status_enter ==
    /\ pc = "status_enter"
    /\ \E credential \in Credentials :
          LET head == emit("progress", <<"Checking generation status...">>, NoKw)
          IN IF from_storage(credential) # "ok"
             THEN finish(<<head, status_except(from_storage(credential))>>)
             ELSE /\ stdout' = Append(stdout, head)
                  /\ pc' = "status_poll"
                  /\ UNCHANGED <<frame, uncaught>>
    /\ UNCHANGED <<runs, calls, fs, remote, created, polled>>

\* lines 309-313: the done event of check-status
status_result(status, task_id) ==
    emit("done", <<"Status", status.status>>,
         [generation_status |-> status.status,
          is_complete       |-> status.is_complete,
          is_failed         |-> status.is_failed,
          task_id           |-> task_id])

\* a check-status that polls again while the task has not ended
status_poll_until_done ==
    /\ pc = "status_poll"
    /\ LET status == poll_status(artifacts, frame.notebook_id[1], frame.task_id[1])
       IN /\ calls' = Append(calls, Call("artifacts.poll_status", frame.notebook_id,
                                         frame.task_id[1], "ok"))
          /\ IF status.is_complete \/ status.is_failed
             THEN finish(<<status_result(status, frame.task_id[1])>>)
             ELSE UNCHANGED <<pc, frame, stdout, uncaught>>
    /\ UNCHANGED <<runs, fs, remote, created, polled>>

\* a check-status whose request makes the remote side start the task again
status_poll_restarting ==
    /\ pc = "status_poll"
    /\ LET status == poll_status(artifacts, frame.notebook_id[1], frame.task_id[1])
           report == status_result(status, frame.task_id[1])
       IN /\ calls' = Append(calls, Call("artifacts.poll_status", frame.notebook_id,
                                         frame.task_id[1], "ok"))
          /\ artifacts' = set_status(artifacts, frame.task_id[1], "processing")
          /\ polled' = Append(polled,
                 [notebook_id |-> frame.notebook_id[1],
                  task_id     |-> frame.task_id[1],
                  seen        |-> artifacts,
                  left        |-> artifacts',
                  report      |-> report.kwargs])
          /\ finish(<<report>>)
    /\ UNCHANGED <<runs, fs, notebooks, sources, created>>

\* lines 308-313: the poll and its report; the poll reads the task and
\* leaves the remote side as it is
status_poll ==
    /\ pc = "status_poll"
    /\ \/ \E exc \in RemoteFailures :
             /\ calls' = Append(calls, Call("artifacts.poll_status", frame.notebook_id,
                                            frame.task_id[1], exc))
             /\ finish(<<status_except(exc)>>)
             /\ UNCHANGED <<artifacts, polled>>
       \/ LET status == poll_status(artifacts, frame.notebook_id[1], frame.task_id[1])
              report == status_result(status, frame.task_id[1])
          IN /\ calls' = Append(calls, Call("artifacts.poll_status", frame.notebook_id,
                                            frame.task_id[1], "ok"))
             /\ artifacts' = artifacts
             /\ polled' = Append(polled,
                    [notebook_id |-> frame.notebook_id[1],
                     task_id     |-> frame.task_id[1],
                     seen        |-> artifacts,
                     left        |-> artifacts',
                     report      |-> report.kwargs])
             /\ finish(<<report>>)
    /\ UNCHANGED <<runs, fs, notebooks, sources, created>>

(***************************************************************************)
(* cmd_download (lines 320-343).                                           *)
(***************************************************************************)
\* the except clauses of cmd_download (lines 339-343)
download_except(exc) ==
    IF exc = "FileNotFoundError"
    THEN emit_error(<<"Not authenticated. Run 'login' first.", exc>>)
    ELSE emit_error(<<"Download failed", exc>>)

\* f"{name}_slides.pdf" if name else "slides.pdf" (line 331)
download_file_name(name) ==
    IF truthy(name) THEN name[1] \o SLIDES_SUFFIX ELSE SLIDES_PDF

\* lines 324-332: the output directory, the client, the output path
download_enter ==
    /\ pc = "download_enter"
    /\ IF mkdir(frame.output_dir, fs) # "ok"
       THEN escape(mkdir(frame.output_dir, fs))
       ELSE \E credential \in Credentials :
               LET head == emit("progress", <<"Downloading slide deck...">>, NoKw)
               IN IF from_storage(credential) # "ok"
                  THEN finish(<<head, download_except(from_storage(credential))>>)
                  ELSE /\ LET path == joinpath(frame.output_dir,
                                                download_file_name(frame.name))
                          IN frame' = [frame EXCEPT
                                          !.path = <<path>>,
                                          !.output_file = <<unique_path(path, fs)>>]
                       /\ stdout' = Append(stdout, head)
                       /\ pc' = "download_fetch"
                       /\ UNCHANGED uncaught
    /\ UNCHANGED <<runs, calls, fs, remote, created, polled>>

\* lines 333-338: client.artifacts.download_slide_deck and the done event
download_fetch ==
    /\ pc = "download_fetch"
    /\ \/ \E exc \in FileFailures :
             /\ calls' = Append(calls, Call("artifacts.download_slide_deck",
                                            frame.notebook_id,
                                            frame.output_file[1].name, exc))
             /\ finish(<<download_except(exc)>>)
             /\ UNCHANGED fs
       \/ /\ calls' = Append(calls, Call("artifacts.download_slide_deck",
                                         frame.notebook_id,
                                         frame.output_file[1].name, "ok"))
          /\ fs' = fs \cup {frame.output_file[1]}
          /\ finish(<<emit("done", <<"PDF downloaded", frame.output_file[1].name>>,
                           [output_path |-> frame.output_file[1]])>>)
    /\ UNCHANGED <<runs, remote, created, polled>>

(***************************************************************************)
(* The remote side works on a generation task between two invocations.     *)
(***************************************************************************)
RemoteProgress ==
    /\ pc \in {"idle", "exit"}
    /\ \E k \in 1..Len(artifacts) :
          \E next \in TaskStatus :
             /\ \/ artifacts[k].status = "pending" /\ next = "processing"
                \/ artifacts[k].status = "processing" /\ next \in {"completed", "failed"}
             /\ artifacts' = [artifacts EXCEPT ![k].status = next]
    /\ UNCHANGED <<runs, pc, frame, stdout, calls, uncaught, fs, notebooks,
                   sources, created, polled>>

(***************************************************************************)
(* Specification.                                                          *)
(***************************************************************************)
Next ==
    \/ main
    \/ cmd_check_auth
    \/ process_enter
    \/ process_open
    \/ process_create
    \/ process_add_primary
    \/ process_add_file
    \/ process_add_url
    \/ process_wait
    \/ process_generate
    \/ process_wait_completion
    \/ process_download
    \/ find_enter
    \/ find_list
    \/ find_artifacts
    \/ status_enter
    \/ status_poll
    \/ download_enter
    \/ download_fetch
    \/ RemoteProgress

Spec == Init /\ [][Next]_vars

\* the steps of a running command: the code up to the next await, and the
\* await itself, which returns or raises
CommandStep ==
    \/ cmd_check_auth
    \/ process_enter
    \/ process_open
    \/ process_create
    \/ process_add_primary
    \/ process_add_file
    \/ process_add_url
    \/ process_wait
    \/ process_generate
    \/ process_wait_completion
    \/ process_download
    \/ find_enter
    \/ find_list
    \/ find_artifacts
    \/ status_enter
    \/ status_poll
    \/ download_enter
    \/ download_fetch

\* a running command is not suspended forever: every client call returns
\* or fails.  Nothing obliges a caller to start another invocation, nor
\* the remote side to work on a task.
SpecLive == Init /\ [][Next]_vars /\ WF_vars(CommandStep)

(***************************************************************************)
(* The path allocator on its own: unique_path is called on a path of a     *)
(* directory that holds any of the numbered candidates.                    *)
(***************************************************************************)
\* the largest counter a file of the directory carries
MaxCounter == 11

\* desired names, each written as the part before the extension and the
\* extension
DesiredNames ==
    {[base |-> <<"s">>, ext |-> <<".", "p", "d", "f">>],
     [base |-> <<"s", " ", "2">>, ext |-> <<".", "p", "d", "f">>],
     [base |-> <<"a", ".", "t">>, ext |-> <<".", "g">>],
     [base |-> <<"n">>, ext |-> <<>>],
     [base |-> <<".", "h">>, ext |-> <<>>]}

\* decimal numerals, written out
Numerals ==
    <<<<"1">>, <<"2">>, <<"3">>, <<"4">>, <<"5">>, <<"6">>, <<"7">>, <<"8">>,
      <<"9">>, <<"1", "0">>, <<"1", "1">>, <<"1", "2">>, <<"1", "3">>,
      <<"1", "4">>, <<"1", "5">>>>

\* the k-th numbered name of a desired name (k = 1 is the name itself)
Numbered(d, k) ==
    [parent |-> OUT_DIR,
     name   |-> IF k = 1 THEN d.base \o d.ext
                ELSE d.base \o <<" ">> \o Numerals[k] \o d.ext]

InitPath ==
    /\ runs = 0
    /\ pc = "path_call"
    /\ \E d \in DesiredNames :
          /\ frame = [NoFrame EXCEPT !.command = "unique_path",
                                     !.path = <<Numbered(d, 1)>>]
          /\ \E taken \in SUBSET (1..MaxCounter) :
                fs = {Numbered(d, k) : k \in taken}
    /\ stdout = <<>>
    /\ calls = <<>>
    /\ uncaught = <<>>
    /\ notebooks = <<>>
    /\ sources = <<>>
    /\ artifacts = <<>>
    /\ created = <<>>
    /\ polled = <<>>

\* output_file = unique_path(path) (lines 247, 332)
unique_path_call ==
    /\ pc = "path_call"
    /\ frame' = [frame EXCEPT !.output_file = <<unique_path(frame.path[1], fs)>>]
    /\ pc' = "path_done"
    /\ UNCHANGED <<runs, stdout, calls, uncaught, fs, remote, created, polled>>

NextPath == unique_path_call

SpecPath == InitPath /\ [][NextPath]_vars

(***************************************************************************)
(* Properties.                                                             *)
(***************************************************************************)
ErrorEvents == {k \in 1..Len(stdout) : IsErrorEvent(stdout[k])}
DoneEvents  == {k \in 1..Len(stdout) : IsDoneEvent(stdout[k])}
FailedCalls == {k \in 1..Len(calls) : calls[k].result # "ok"}

\* C1: whatever fails during a command, nothing uncaught leaves the
\* process: when the process exits, no exception has escaped main and the
\* last event printed is a terminal done or error event.
C1_NoFailureEscapes ==
    pc = "exit" =>
        /\ uncaught = <<>>
        /\ stdout # <<>>
        /\ IsTerminalEvent(stdout[Len(stdout)])

\* C2: the notebook a process run with job identifier J created has J in
\* its title, and a find-notebook(J) that reports a result reports the id of
\* that notebook, whatever other notebooks the workspace holds.
C2_FindReturnsCreatedNotebook ==
    /\ \A c \in 1..Len(created) :
          truthy(created[c].job_id) =>
              \E n \in 1..Len(notebooks) :
                  /\ notebooks[n].id = created[c].notebook_id
                  /\ contains(notebooks[n].title, created[c].job_id[1])
    /\ (pc = "exit" /\ frame.command = "find-notebook" /\ DoneEvents # {}) =>
          \A c \in 1..Len(created) :
              created[c].job_id = frame.job_id =>
                  stdout[Len(stdout)].kwargs.notebook_id = created[c].notebook_id

\* C3: in process, once a workspace-client call has failed, the run is
\* over: the failed call is the last call of the run, exactly one error
\* event was printed, after that call and as the last event, and no done
\* event was printed.
C3_RemoteFailureEndsJob ==
    (frame.command = "process" /\ FailedCalls # {}) =>
        /\ pc = "exit"
        /\ FailedCalls = {Len(calls)}
        /\ ErrorEvents = {Len(stdout)}
        /\ calls[Len(calls)].at < Len(stdout)
        /\ DoneEvents = {}

\* a process run in which the readiness wait of the second source failed
C3_Witness ==
    /\ frame.command = "process"
    /\ Len(calls) >= 4
    /\ FailedCalls = {Len(calls)}
    /\ calls[Len(calls)].op = "sources.wait_until_ready"
    /\ pc = "exit"

\* C4: a process run whose primary file does not exist makes no call to the
\* workspace client, creates no notebook, and ends having printed exactly
\* one event, an error event.
C4_MissingPrimaryFile ==
    (frame.command = "process" /\ ~exists(frame.file_path, fs)) =>
        /\ pc \in {"process_enter", "exit"}
        /\ calls = <<>>
        /\ created = <<>>
        /\ pc = "exit" => (Len(stdout) = 1 /\ IsErrorEvent(stdout[1]))

\* a process run on a missing primary file has ended
C4_Witness ==
    /\ frame.command = "process"
    /\ ~exists(frame.file_path, fs)
    /\ frame.job_id = <<JOB_7>>
    /\ pc = "exit"
    /\ Len(stdout) = 1

\* C5: in process, when a recorded source does not turn ready within the
\* 300 seconds of its readiness wait, the run ends there with an error
\* event that names the timeout, and the generation call, the completion
\* wait and the download are never invoked.
C5_ReadinessTimeoutAborts ==
    \A k \in called("sources.wait_until_ready") :
        calls[k].delay >= SOURCE_TIMEOUT =>
            /\ pc = "exit"
            /\ k = Len(calls)
            /\ ErrorEvents = {Len(stdout)}
            /\ stdout[Len(stdout)].error[2] = "SourceTimeoutError"
            /\ called("artifacts.generate_slide_deck") = {}
            /\ called("artifacts.wait_for_completion") = {}
            /\ called("artifacts.download_slide_deck") = {}

\* the second recorded source ran out of its budget
C5_Witness ==
    /\ pc = "exit"
    /\ Cardinality(called("sources.wait_until_ready")) = 2
    /\ calls[Len(calls)].op = "sources.wait_until_ready"
    /\ calls[Len(calls)].delay > SOURCE_TIMEOUT

\* C6: in process, when the generation call returns an empty task id, the
\* run ends there with one error event, generate is the last call of the
\* run and was made once, and neither the completion wait nor the download
\* is invoked.
C6_EmptyTaskIdAborts ==
    \A k \in called("artifacts.generate_slide_deck") :
        (calls[k].result = "ok" /\ calls[k].returned = <<>>) =>
            /\ pc = "exit"
            /\ k = Len(calls)
            /\ ErrorEvents = {Len(stdout)}
            /\ DoneEvents = {}
            /\ called("artifacts.generate_slide_deck") = {k}
            /\ called("artifacts.wait_for_completion") = {}
            /\ called("artifacts.download_slide_deck") = {}

\* a generation call that returned no task id
C6_Witness ==
    /\ pc = "exit"
    /\ calls # <<>>
    /\ calls[Len(calls)].op = "artifacts.generate_slide_deck"
    /\ calls[Len(calls)].result = "ok"
    /\ calls[Len(calls)].returned = <<>>

\* the arguments of the successful calls of an operation, in call order
ArgsOf(op) ==
    LET hits == SelectSeq(calls, LAMBDA c : c.op = op /\ c.result = "ok")
    IN [k \in 1..Len(hits) |-> hits[k].arg]

\* the additional files of the run that exist, and those that are missing
ExistingAdditional ==
    SelectSeq(frame.additional_files, LAMBDA f : exists(Path(f), fs))
MissingAdditional ==
    SelectSeq(frame.additional_files, LAMBDA f : ~exists(Path(f), fs))

\* the files the progress events report as skipped, in order
Skipped ==
    LET notes == SelectSeq(stdout,
                     LAMBDA e : IsStatusEvent(e) /\ e.status = "progress"
                                /\ e.message[1] = "Skipping missing file")
    IN [k \in 1..Len(notes) |-> notes[k].message[2]]

\* the upload loops of the run are behind it
UploadsDone ==
    \/ pc \in {"process_add_url", "process_wait", "process_generate",
               "process_wait_completion", "process_download"}
    \/ /\ pc = "exit"
       /\ \E k \in 1..Len(calls) :
             calls[k].op \notin {"notebooks.create", "sources.add_file"}

\* C7: in process, a missing additional file is not fatal.  Once the upload
\* loop is over, the files uploaded are the primary file and the additional
\* files that exist, in input order, and the files reported as skipped are
\* the missing ones; once generation is requested, every recorded source
\* was awaited, in order; and a run in which the notebook was created, no
\* call failed and generation returned a task id ends with the download.
C7_MissingAdditionalFileIsSkipped ==
    frame.command = "process" =>
        /\ UploadsDone =>
              /\ ArgsOf("sources.add_file") =
                    <<frame.file_path.name>> \o ExistingAdditional
              /\ Skipped = MissingAdditional
              /\ \A k \in called("sources.add_file") : calls[k].result = "ok"
        /\ called("artifacts.generate_slide_deck") # {} =>
              /\ ArgsOf("sources.wait_until_ready") =
                    [k \in 1..Len(frame.source_ids) |-> frame.source_ids[k].id]
              /\ [k \in 1..Len(frame.source_ids) |-> frame.source_ids[k].name] =
                    <<frame.file_path.name>> \o ExistingAdditional
                       \o frame.source_urls
        /\ (/\ pc = "exit"
            /\ calls # <<>>
            /\ FailedCalls = {}
            /\ \A k \in called("artifacts.generate_slide_deck") :
                  calls[k].returned # <<>>) =>
              calls[Len(calls)].op = "artifacts.download_slide_deck"

\* one missing additional file among two that exist: both were uploaded and
\* awaited, and the run reached the download
C7_Witness ==
    /\ frame.command = "process"
    /\ Len(frame.additional_files) = 3
    /\ Len(MissingAdditional) = 1
    /\ Cardinality(called("sources.add_file")) = 3
    /\ Cardinality(called("sources.wait_until_ready")) = 3
    /\ Skipped = <<FILE_X>>
    /\ called("artifacts.download_slide_deck") # {}

\* C8: check-status polls the remote side at most once, for the notebook
\* and task it was given, and never waits or retries: an invocation that
\* opened the client ends after exactly one poll, and when the poll returned
\* a status, whichever it is, the run prints exactly one terminal event, a
\* done event that carries that status and its completion and failure flags.
C8_SinglePoll ==
    frame.command = "check-status" =>
        /\ Len(calls) <= 1
        /\ \A k \in 1..Len(calls) :
              /\ calls[k].op = "artifacts.poll_status"
              /\ calls[k].notebook_id = frame.notebook_id
              /\ calls[k].arg = frame.task_id[1]
        /\ pc = "status_poll" => calls = <<>>
        /\ pc = "exit" =>
              \/ calls = <<>> /\ ErrorEvents = {Len(stdout)} /\ DoneEvents = {}
              \/ Len(calls) = 1 /\ calls[1].result # "ok"
                 /\ ErrorEvents = {Len(stdout)} /\ DoneEvents = {}
              \/ /\ Len(calls) = 1 /\ calls[1].result = "ok"
                 /\ DoneEvents = {Len(stdout)}
                 /\ ErrorEvents = {}
                 /\ LET seen == polled[Len(polled)].seen
                        hits == {k \in 1..Len(seen) :
                                    /\ seen[k].id = frame.task_id[1]
                                    /\ seen[k].notebook_id = frame.notebook_id[1]}
                        task == IF hits = {} THEN [status |-> "pending"]
                                ELSE seen[CHOOSE k \in hits : TRUE]
                        kw == stdout[Len(stdout)].kwargs
                    IN /\ kw.generation_status = task.status
                       /\ kw.generation_status \in TaskStatus
                       /\ kw.is_complete = (task.status = "completed")
                       /\ kw.is_failed = (task.status = "failed")
                       /\ kw.task_id = frame.task_id[1]

\* a check-status that polled a task still being generated, and ended
C8_Witness ==
    /\ frame.command = "check-status"
    /\ pc = "exit"
    /\ Len(calls) = 1
    /\ DoneEvents # {}
    /\ stdout[Len(stdout)].kwargs.generation_status = "processing"

DesiredOf(path) == CHOOSE d \in DesiredNames : Numbered(d, 1) = path

\* C10: unique_path returns the path unchanged when no file exists there;
\* otherwise it returns the path with a space and the counter k before the
\* extension, k being the smallest integer >= 2 whose candidate does not
\* exist (after the collisions path, 'path 2', ..., 'path N' it is N + 1);
\* the path returned never names an existing file.
C10_UniquePath ==
    pc = "path_done" =>
        LET path   == frame.path[1]
            result == frame.output_file[1]
            d      == DesiredOf(path)
        IN /\ ~exists(result, fs)
           /\ ~exists(path, fs) => result = path
           /\ exists(path, fs) =>
                 \E k \in 2..(Cardinality(fs) + 1) :
                     /\ result = Numbered(d, k)
                     /\ \A j \in 2..(k - 1) : exists(Numbered(d, j), fs)
           /\ \A n \in 1..MaxCounter :
                 fs = {Numbered(d, j) : j \in 1..n} => result = Numbered(d, n + 1)

\* after the collisions path, 'path 2', ..., 'path 9' the counter is 10
C10_Witness ==
    /\ pc = "path_done"
    /\ fs = {Numbered(DesiredOf(frame.path[1]), j) : j \in 1..9}
    /\ frame.output_file[1].name = <<"s", " ", "1", "0", ".", "p", "d", "f">>

(***************************************************************************)
(* The dispatcher's argument validation.                                   *)
(***************************************************************************)
Commands == {CMD_LOGIN, CMD_CHECK_AUTH, CMD_PROCESS, CMD_FIND_NOTEBOOK,
             CMD_CHECK_STATUS, CMD_DOWNLOAD}

Flags == {FLAG_SYSTEM_PROMPT, FLAG_JOB_ID, FLAG_SOURCE_FILE, FLAG_SOURCE_URL,
          FLAG_NAME, FLAG_ARTIFACT_ID}

\* the positions after the command that hold a positional argument: a token
\* that is neither a flag nor the value that follows a flag
Positionals(argv) ==
    {i \in 2..(Len(argv) - 1) :
        arg(argv, i) \notin Flags /\ arg(argv, i - 1) \notin Flags}

\* the positional arguments each command requires
Required(command) ==
    CASE command = CMD_PROCESS       -> 2
      [] command = CMD_FIND_NOTEBOOK -> 1
      [] command = CMD_CHECK_STATUS  -> 2
      [] command = CMD_DOWNLOAD      -> 2
      [] OTHER                       -> 0

\* no command, an unknown command, or too few positional arguments
Misused(argv) ==
    \/ Len(argv) < 2
    \/ arg(argv, 1) \notin Commands
    \/ Cardinality(Positionals(argv)) < Required(arg(argv, 1))

\* too few tokens after the command, whatever the tokens are
TooShort(argv) ==
    \/ Len(argv) < 2
    \/ arg(argv, 1) \notin Commands
    \/ Len(argv) - 2 < Required(arg(argv, 1))

\* the invocation printed one usage error and entered no command
UsageErrorOnly ==
    /\ pc = "exit"
    /\ Len(stdout) = 1 /\ IsMinimalError(stdout[1])
    /\ frame.command = "none"
    /\ calls = <<>>

\* C11: an absent command, an unknown command, or fewer positional arguments
\* than the command requires (process 2, find-notebook 1, check-status 2,
\* download 2) yields exactly one usage error event, and no command function
\* is entered.
C11_UsageError ==
    (pc # "idle" /\ Misused(frame.argv)) => UsageErrorOnly

\* what main does check: the number of tokens
C11_TokenCount ==
    (pc # "idle" /\ TooShort(frame.argv)) => UsageErrorOnly

(***************************************************************************)
(* find-notebook.                                                          *)
(***************************************************************************)
FindPositions == {"find_enter", "find_list", "find_artifacts"}

ListOperations == {"notebooks.list", "artifacts.list"}

\* C12: find-notebook never mutates remote state: no step of it changes the
\* notebooks, sources or artifacts, and on every path the only client
\* operations it invokes are notebooks.list and artifacts.list.
C12_FindNeverMutates ==
    /\ [][(pc \in FindPositions) => UNCHANGED remote]_vars
    /\ [](frame.command = "find-notebook" =>
             \A k \in 1..Len(calls) : calls[k].op \in ListOperations)

\* find-notebook ended having found a slide artifact in a workspace that
\* holds notebooks, sources and artifacts
C12_Witness ==
    /\ frame.command = "find-notebook"
    /\ pc = "exit"
    /\ DoneEvents # {}
    /\ {calls[k].op : k \in 1..Len(calls)} = ListOperations
    /\ notebooks # <<>> /\ sources # <<>> /\ artifacts # <<>>
    /\ "task_id" \in DOMAIN stdout[Len(stdout)].kwargs

\* the positions of the listing find-notebook received whose title contains
\* the job identifier
Matches ==
    {k \in 1..Len(frame.notebooks) :
        contains(frame.notebooks[k].title, frame.job_id[1])}

\* notebooks.list() has returned in this invocation
Listed == \E k \in called("notebooks.list") : calls[k].result = "ok"

\* C13: find-notebook selects the first notebook, in listing order, whose
\* title contains the job identifier: the notebook it goes on with, the one
\* artifacts.list call, the artifacts it examines and the result it reports
\* all refer to that first match and never to a later matching notebook.
C13_FirstMatchWins ==
    (frame.command = "find-notebook" /\ Listed /\ Matches # {}) =>
        \E k \in Matches :
            LET nb == frame.notebooks[k]
            IN /\ \A h \in Matches : k <= h
               /\ frame.notebook_id = <<nb.id>>
               /\ Cardinality(called("artifacts.list")) <= 1
               /\ \A c \in called("artifacts.list") : calls[c].notebook_id = <<nb.id>>
               /\ \A a \in 1..Len(frame.artifacts) :
                     frame.artifacts[a].notebook_id = nb.id
               /\ \A e \in DoneEvents : stdout[e].kwargs.notebook_id = nb.id

\* the first match has no slide artifact, a later match has one, and the
\* result is "no artifact" for the first
C13_Witness ==
    /\ frame.command = "find-notebook"
    /\ pc = "exit"
    /\ DoneEvents # {}
    /\ Cardinality(Matches) = 2
    /\ \E k, h \in Matches :
          /\ k < h
          /\ stdout[Len(stdout)].kwargs =
                [notebook_id |-> frame.notebooks[k].id,
                 generation_status |-> "no_artifact"]
          /\ \E a \in 1..Len(artifacts) :
                /\ artifacts[a].notebook_id = frame.notebooks[h].id
                /\ is_slide_kind(artifacts[a].kind)

(***************************************************************************)
(* The steps of process.                                                   *)
(***************************************************************************)
\* C14: a process run prints at most one done event; the done event is the
\* last event of the run and is printed only after the download call, the
\* last call of the run, has returned; it carries the id of the notebook
\* the first call of the run created, to which every other call of the run
\* was addressed, and the output path the file was downloaded to.
C14_SingleDone ==
    frame.command = "process" =>
        /\ Cardinality(DoneEvents) <= 1
        /\ \A e \in DoneEvents :
              LET done == stdout[e].kwargs
                  d    == Len(calls)
              IN /\ pc = "exit"
                 /\ e = Len(stdout)
                 /\ ErrorEvents = {}
                 /\ calls[d].op = "artifacts.download_slide_deck"
                 /\ calls[d].result = "ok"
                 /\ calls[d].at < e
                 /\ called("notebooks.create") = {1}
                 /\ created # <<>>
                 /\ created[Len(created)].notebook_id = done.notebook_id
                 /\ \E n \in 1..Len(notebooks) :
                       /\ notebooks[n].id = done.notebook_id
                       /\ notebooks[n].title = calls[1].arg
                 /\ \A k \in 2..Len(calls) :
                       calls[k].notebook_id = <<done.notebook_id>>
                 /\ done.output_path = frame.output_file[1]
                 /\ done.output_path.parent = frame.output_dir.name
                 /\ done.output_path.name = calls[d].arg
                 /\ exists(done.output_path, fs)

\* a job that ended with a done event for the second notebook of the
\* workspace and an output path that carries a counter
C14_Witness ==
    /\ frame.command = "process"
    /\ pc = "exit"
    /\ DoneEvents = {Len(stdout)}
    /\ stdout[Len(stdout)].kwargs.notebook_id = NB_2
    /\ stdout[Len(stdout)].kwargs.output_path = OutA(2)
    /\ Len(calls) >= 6

\* a step of the plan: the operation and its argument
Step(op, a) == [op |-> op, arg |-> a]

\* the sources the remote side holds for the notebook of the run, in the
\* order they were added
OwnSources ==
    SelectSeq(sources,
              LAMBDA s : frame.notebook_id # <<>> /\ s.notebook_id = frame.notebook_id[1])

\* the calls a process run is to make, in order, from its input: create,
\* the primary file, the additional files that exist, the URLs, one
\* readiness wait per source of the notebook, generate, the completion
\* wait, the download
Plan ==
    <<Step("notebooks.create", process_title(frame.file_path, frame.job_id)),
      Step("sources.add_file", frame.file_path.name)>>
    \o [k \in 1..Len(ExistingAdditional) |->
           Step("sources.add_file", ExistingAdditional[k])]
    \o [k \in 1..Len(frame.source_urls) |->
           Step("sources.add_url", frame.source_urls[k])]
    \o [k \in 1..Len(OwnSources) |->
           Step("sources.wait_until_ready", OwnSources[k].id)]
    \o <<Step("artifacts.generate_slide_deck",
              IF truthy(frame.system_prompt) THEN frame.system_prompt[1]
              ELSE DEFAULT_SYSTEM_PROMPT),
         Step("artifacts.wait_for_completion",
              IF frame.task_id = <<>> THEN <<>> ELSE frame.task_id[1]),
         Step("artifacts.download_slide_deck",
              IF frame.output_file = <<>> THEN <<>> ELSE frame.output_file[1].name)>>

\* the uploads of the plan
PlannedUploads == 1 + Len(ExistingAdditional) + Len(frame.source_urls)

\* C15: in every process run the client calls made so far are an initial
\* part of the plan: create, primary upload, additional uploads and URLs in
\* input order, the readiness waits in upload order, generate, completion
\* wait, download.  Only the last call made can have failed.  Generate is
\* called only after every planned upload was made and every source of the
\* notebook was awaited successfully, and the output path is allocated only
\* after the completion wait has returned and before the download.
C15_CallOrder ==
    frame.command = "process" =>
        /\ Len(calls) <= Len(Plan)
        /\ \A k \in 1..Len(calls) :
              /\ Step(calls[k].op, calls[k].arg) = Plan[k]
              /\ k < Len(calls) => calls[k].result = "ok"
        /\ called("artifacts.generate_slide_deck") # {} =>
              /\ Len(OwnSources) = PlannedUploads
              /\ Cardinality(called("sources.wait_until_ready")) = PlannedUploads
              /\ \A k \in called("sources.wait_until_ready") : calls[k].result = "ok"
        /\ frame.output_file # <<>> <=>
              \E k \in called("artifacts.wait_for_completion") : calls[k].result = "ok"
        /\ called("artifacts.download_slide_deck") # {} => frame.output_file # <<>>

\* a complete job with two additional files uploaded and one skipped: ten
\* calls, the last of them the download
C15_Witness ==
    /\ frame.command = "process"
    /\ pc = "exit"
    /\ DoneEvents # {}
    /\ Len(ExistingAdditional) = 2
    /\ Len(calls) = 10
    /\ Len(calls) = Len(Plan)

\* the message of the progress event that announces the k-th call
Announcement(k) ==
    LET op == calls[k].op
    IN CASE op = "notebooks.create"  -> <<"Creating notebook...">>
         [] op = "sources.add_file"  ->
               IF k = 2 THEN <<"Uploading source", calls[k].arg>>
               ELSE <<"Uploading additional source", calls[k].arg>>
         [] op = "sources.add_url"   -> <<"Adding URL source", calls[k].arg>>
         [] op = "sources.wait_until_ready" ->
               <<"Waiting for source to be processed",
                 Plan[k - PlannedUploads].arg>>
         [] op = "artifacts.generate_slide_deck" -> <<"Generating slide deck...">>
         [] op = "artifacts.wait_for_completion" ->
               <<"Waiting for slide generation to complete...">>
         [] op = "artifacts.download_slide_deck" ->
               <<"Downloading PDF to", calls[k].arg>>

\* C16: in process, the last event printed before each client call is a
\* progress event that announces that call (its operation and the file,
\* URL, source or path it is about), and it was printed after the previous
\* client call was made, so the announcements appear in the order of the
\* calls.
C16_ProgressBeforeEachCall ==
    frame.command = "process" =>
        \A k \in 1..Len(calls) :
            LET e == calls[k].at
            IN /\ e >= 1
               /\ IsStatusEvent(stdout[e])
               /\ stdout[e].status = "progress"
               /\ stdout[e].message = Announcement(k)
               /\ k > 1 => calls[k - 1].at < e

\* a complete job with a URL source: eight calls, each announced
C16_Witness ==
    /\ frame.command = "process"
    /\ pc = "exit"
    /\ DoneEvents # {}
    /\ called("sources.add_url") # {}
    /\ Len(calls) = 8

\* C17: in process, when the completion wait returns a status flagged
\* failed, the job goes on: the next events are the progress note about the
\* failed status and the announcement of the download, the output path is
\* allocated, and the download is the next and last call, addressed to the
\* notebook of the run with the allocated path; the run ends with a done
\* event when the download succeeds and with an error event only when the
\* download fails.
C17_FailedStatusStillDownloads ==
    frame.command = "process" =>
        \A k \in called("artifacts.wait_for_completion") :
            (calls[k].result = "ok" /\ calls[k].returned = <<"failed">>) =>
                LET e == calls[k].at
                IN /\ pc \in {"process_download", "exit"}
                   /\ Len(stdout) >= e + 2
                   /\ \A j \in 1..(e + 2) :
                         IsStatusEvent(stdout[j]) /\ stdout[j].status = "progress"
                   /\ stdout[e + 1].message =
                         <<"Generation status reports failed, attempting download anyway...">>
                   /\ frame.path = <<joinpath(frame.output_dir,
                                              path_stem(frame.file_path) \o SLIDES_SUFFIX)>>
                   /\ frame.output_file # <<>>
                   /\ stdout[e + 2].message =
                         <<"Downloading PDF to", frame.output_file[1].name>>
                   /\ pc = "process_download" => Len(calls) = k
                   /\ pc = "exit" =>
                         /\ Len(calls) = k + 1
                         /\ calls[k + 1].op = "artifacts.download_slide_deck"
                         /\ calls[k + 1].notebook_id = frame.notebook_id
                         /\ calls[k + 1].arg = frame.output_file[1].name
                         /\ calls[k + 1].result = "ok" =>
                               (DoneEvents = {Len(stdout)} /\ ErrorEvents = {})
                         /\ calls[k + 1].result # "ok" =>
                               (ErrorEvents = {Len(stdout)} /\ DoneEvents = {})

\* a job whose generation was reported failed and whose download succeeded
C17_Witness ==
    /\ frame.command = "process"
    /\ pc = "exit"
    /\ DoneEvents = {Len(stdout)}
    /\ \E k \in called("artifacts.wait_for_completion") :
          calls[k].returned = <<"failed">>
    /\ calls[Len(calls)].op = "artifacts.download_slide_deck"
    /\ calls[Len(calls)].result = "ok"

(***************************************************************************)
(* The error taxonomy.                                                     *)
(***************************************************************************)
ClientCommands == {"process", "find-notebook", "check-status", "download"}

\* the error event that tells the caller to run login
IsNotAuthenticated(e) ==
    IsMinimalError(e) /\ e.error[1] = "Not authenticated. Run 'login' first."

\* the error event of a failed operation, naming the command that failed
IsOperationFailure(e) ==
    /\ IsMinimalError(e)
    /\ e.error[1] \in {"Process failed", "Find notebook failed",
                       "Check status failed", "Download failed"}

\* C18: process, find-notebook, check-status and download print the 'Not
\* authenticated' error only when opening the client on the credential
\* store failed, that is before any client call; once a client call has
\* failed, a missing file reported by an upload or a download included,
\* the error printed is an operation failure and never 'Not authenticated'.
C18_NotAuthenticatedOnlyForCredentials ==
    frame.command \in ClientCommands =>
        /\ \A e \in 1..Len(stdout) :
              IsNotAuthenticated(stdout[e]) => calls = <<>>
        /\ (pc = "exit" /\ FailedCalls # {}) =>
              IsOperationFailure(stdout[Len(stdout)])

\* the done events of find-notebook that report a slide artifact
SlideResults ==
    {e \in DoneEvents : "task_id" \in DOMAIN stdout[e].kwargs}

\* C19: when find-notebook reports a slide artifact, the generation status
\* agrees with the flags of the same event, whatever state the artifact is
\* in: it is 'completed' exactly when is_complete is true, and 'failed'
\* only when is_failed is true.
C19_StatusAgreesWithFlags ==
    frame.command = "find-notebook" =>
        \A e \in SlideResults :
            LET r == stdout[e].kwargs
            IN /\ r.generation_status = "completed" <=> r.is_complete
               /\ r.generation_status = "failed" => r.is_failed

\* the positions of the artifact listing find-notebook received that hold a
\* slide deck
SlidePositions ==
    {a \in 1..Len(frame.artifacts) : frame.artifacts[a].kind = KIND_SLIDE_DECK}

\* the smallest element of a non-empty set of positions
First(S) == CHOOSE k \in S : \A h \in S : k <= h

\* C20: find-notebook prints at most one done event, and a run of it that
\* ends without an error prints exactly one, as its last event, with one of
\* three results.  No title in the listing contains the identifier: a null
\* notebook id, and artifacts.list was not called.  Otherwise the artifacts
\* of the first matching notebook were listed once, and either none of them
\* is a slide deck: the notebook id with the status 'no_artifact'; or the
\* notebook id with the id of the first slide deck of that listing as task
\* id.
C20_ThreeResults ==
    frame.command = "find-notebook" =>
        /\ Cardinality(DoneEvents) <= 1
        /\ DoneEvents # {} => (pc = "exit" /\ ErrorEvents = {})
        /\ (pc = "exit" /\ ErrorEvents = {}) =>
              /\ DoneEvents = {Len(stdout)}
              /\ LET r == stdout[Len(stdout)].kwargs
                 IN IF Matches = {}
                    THEN /\ r = [notebook_id |-> <<>>]
                         /\ called("artifacts.list") = {}
                    ELSE LET nb == frame.notebooks[First(Matches)]
                         IN /\ Cardinality(called("artifacts.list")) = 1
                            /\ {frame.artifacts[a].id : a \in 1..Len(frame.artifacts)} =
                                  {artifacts[a].id : a \in
                                      {b \in 1..Len(artifacts) :
                                          artifacts[b].notebook_id = nb.id}}
                            /\ IF SlidePositions = {}
                               THEN r = [notebook_id |-> nb.id,
                                         generation_status |-> "no_artifact"]
                               ELSE /\ DOMAIN r = {"notebook_id", "task_id",
                                                   "generation_status",
                                                   "is_complete", "is_failed"}
                                    /\ r.notebook_id = nb.id
                                    /\ r.task_id =
                                          frame.artifacts[First(SlidePositions)].id

\* the matching notebook's listing starts with an audio overview and the
\* result names the slide deck that follows it
C20_Witness ==
    /\ frame.command = "find-notebook"
    /\ pc = "exit"
    /\ DoneEvents = {Len(stdout)}
    /\ Len(frame.artifacts) = 2
    /\ frame.artifacts[1].kind = KIND_AUDIO
    /\ stdout[Len(stdout)].kwargs.notebook_id = NB_1
    /\ stdout[Len(stdout)].kwargs.task_id = TASK_1

(***************************************************************************)
(* Budgets, retries, event shapes.                                         *)
(***************************************************************************)
\* the two timed waits of process and the budget each call is given
TimedWaits == {"sources.wait_until_ready", "artifacts.wait_for_completion"}

Budget(op) == IF op = "sources.wait_until_ready" THEN 300 ELSE 1800

TimeoutErrors == {"SourceTimeoutError", "TimeoutError"}

\* C21: the budgets of process are per wait: a readiness wait times out
\* exactly when its own source needs 300 seconds or more, and the
\* completion wait exactly when the task needs 1800 seconds or more,
\* whatever time the earlier waits of the run have taken; so a job whose
\* sources each turn ready just before their budget ends is not aborted.
C21_BudgetPerWait ==
    frame.command = "process" =>
        \A k \in 1..Len(calls) :
            (calls[k].op \in TimedWaits /\ calls[k].result \notin RemoteFailures) =>
                /\ calls[k].delay < Budget(calls[k].op) <=> calls[k].result = "ok"
                /\ calls[k].delay >= Budget(calls[k].op) <=>
                      calls[k].result \in TimeoutErrors

\* a job with three sources that each took 299 seconds and a generation
\* that took 1799 seconds, ended with a done event
C21_Witness ==
    /\ frame.command = "process"
    /\ pc = "exit"
    /\ DoneEvents = {Len(stdout)}
    /\ Cardinality(called("sources.wait_until_ready")) = 3
    /\ \A k \in called("sources.wait_until_ready") : calls[k].delay = 299
    /\ \A k \in called("artifacts.wait_for_completion") : calls[k].delay = 1799
    /\ waited(calls) = 3 * 299 + 1799

\* how often x occurs in a sequence
Count(seq, x) == Cardinality({i \in 1..Len(seq) : seq[i] = x})

\* the calls of an operation made with argument a
CalledWith(op, a) == {k \in called(op) : calls[k].arg = a}

\* the files a process run is given, the primary file first
InputFileNames == <<frame.file_path.name>> \o frame.additional_files

\* C22: no step of process is retried.  In a run, whatever the calls
\* returned, notebooks.create, generate, the completion wait and the
\* download are each called at most once, a file or URL is uploaded at most
\* as often as the input names it, and no source is awaited twice.
C22_NoRetry ==
    frame.command = "process" =>
        /\ \A op \in {"notebooks.create", "artifacts.generate_slide_deck",
                      "artifacts.wait_for_completion",
                      "artifacts.download_slide_deck"} :
              Cardinality(called(op)) <= 1
        /\ \A k \in called("sources.add_file") :
              Cardinality(CalledWith("sources.add_file", calls[k].arg))
                 <= Count(InputFileNames, calls[k].arg)
        /\ \A k \in called("sources.add_url") :
              Cardinality(CalledWith("sources.add_url", calls[k].arg))
                 <= Count(frame.source_urls, calls[k].arg)
        /\ \A k \in called("sources.wait_until_ready") :
              CalledWith("sources.wait_until_ready", calls[k].arg) = {k}

\* a job that made every call of its plan once and whose last call, the
\* download, failed
C22_Witness ==
    /\ frame.command = "process"
    /\ pc = "exit"
    /\ Len(calls) = 10
    /\ FailedCalls = {10}
    /\ calls[10].op = "artifacts.download_slide_deck"
    /\ Cardinality(called("sources.add_file")) = 3

\* the statuses of the event protocol
EventStatuses == {"progress", "waiting", "done", "error"}

\* the client calls made before the e-th event was printed
CallsBefore(e) == {k \in 1..Len(calls) : calls[k].at < e}

\* C23: every event printed is either a record with a status among
\* progress, waiting, done, error and a message, or the minimal record with
\* only an error field; the minimal record is printed only before any
\* client call was made, and a run in which a client call failed ends with
\* a record of status error.
C23_EventShapes ==
    /\ \A e \in 1..Len(stdout) :
          \/ /\ {"status", "message"} \subseteq DOMAIN stdout[e]
             /\ stdout[e].status \in EventStatuses
          \/ /\ DOMAIN stdout[e] = {"error"}
             /\ CallsBefore(e) = {}
    /\ (pc = "exit" /\ FailedCalls # {}) =>
          /\ IsStatusEvent(stdout[Len(stdout)])
          /\ stdout[Len(stdout)].status = "error"

(***************************************************************************)
(* Termination.                                                            *)
(***************************************************************************)
\* the n-th invocation is one of the four client commands and is running
Running(n) ==
    runs = n /\ frame.command \in ClientCommands /\ pc # "exit"

\* the n-th invocation has exited
Exited(n) == runs = n /\ pc = "exit"

\* the last event printed is a terminal done or error event
Terminal == stdout # <<>> /\ IsTerminalEvent(stdout[Len(stdout)])

\* C24: every invocation of process, find-notebook, check-status and
\* download, given that each client call returns or fails, eventually
\* exits, and has then printed a terminal event as its last event.
C24_Terminates ==
    \A n \in 1..MaxRuns : Running(n) ~> (Exited(n) /\ Terminal)

\* the part about termination alone: every such invocation eventually exits
C24_Exits ==
    \A n \in 1..MaxRuns : Running(n) ~> Exited(n)

(***************************************************************************)
(* Flag extraction.                                                        *)
(***************************************************************************)
RECURSIVE Written(_, _)
\* the flags the caller wrote, read from position i on with every token in
\* one role: a flag name takes the token after it as its value, and the
\* reading goes on after that value
Written(argv, i) ==
    IF i >= Len(argv) THEN <<>>
    ELSE IF arg(argv, i) \in Flags /\ i + 1 < Len(argv)
         THEN <<[flag |-> arg(argv, i), value |-> arg(argv, i + 1)]>>
              \o Written(argv, i + 2)
         ELSE Written(argv, i + 1)

\* the values written for a flag, in order
ValuesOf(written, flag) ==
    LET hits == SelectSeq(written, LAMBDA w : w.flag = flag)
    IN [k \in 1..Len(hits) |-> hits[k].value]

\* the first value written for a flag, None when it was not written
FirstOf(written, flag) ==
    IF ValuesOf(written, flag) = <<>> THEN <<>>
    ELSE <<ValuesOf(written, flag)[1]>>

\* C25: for process and download every token is used in one role: the two
\* positional arguments are not read as flags, and a token taken as the
\* value of a flag is not read as a flag name.  So the additional files and
\* URLs handed to cmd_process are the values of the --source-file and
\* --source-url flags written after the positional arguments, as many as
\* were written, and the single-valued flags carry the value written for
\* them or None.
C25_OneRolePerToken ==
    LET written == Written(frame.argv, 4)
    IN /\ frame.command = "process" =>
             /\ frame.additional_files = ValuesOf(written, FLAG_SOURCE_FILE)
             /\ frame.source_urls = ValuesOf(written, FLAG_SOURCE_URL)
             /\ frame.system_prompt = FirstOf(written, FLAG_SYSTEM_PROMPT)
             /\ frame.job_id = FirstOf(written, FLAG_JOB_ID)
       /\ frame.command = "download" =>
             /\ frame.name = FirstOf(written, FLAG_NAME)
             /\ frame.artifact_id = FirstOf(written, FLAG_ARTIFACT_ID)

\* the part about the repeatable flags alone: as many files and URLs as
\* flags written
C25_Counts ==
    frame.command = "process" =>
        /\ Len(frame.additional_files) =
              Len(ValuesOf(Written(frame.argv, 4), FLAG_SOURCE_FILE))
        /\ Len(frame.source_urls) =
              Len(ValuesOf(Written(frame.argv, 4), FLAG_SOURCE_URL))

====
